---- MODULE Spec2Model ----
(***************************************************************************)
(* A model of the retrieval-augmented generation core of rag_app:          *)
(*   backend/rag/document_processor.py  (chunker)                          *)
(*   backend/rag/vector_store.py        (embedding index)                  *)
(*   backend/rag/llm_client.py          (answer generator)                 *)
(*   backend/rag/rag_service.py         (orchestrator)                     *)
(*                                                                         *)
(* Several specifications share the module:                                *)
(*   SplitSpec  runs DocumentProcessor._split_into_sentences, one loop     *)
(*              iteration per step, on every fragment list up to           *)
(*              MaxFragments;                                              *)
(*   ChunkSpec  runs DocumentProcessor._chunk_text, one loop iteration per *)
(*              step, on every sentence sequence up to MaxSentences;       *)
(*              ChunkFairSpec is ChunkSpec with the loop always going on;  *)
(*   Spec       runs concurrent ingest / query / delete requests against   *)
(*              one shared collection, one step per store call, in a       *)
(*              process without a provider key;                            *)
(*   GenSpec    runs query requests for every provider configuration, on   *)
(*              collections that earlier ingests have filled;              *)
(*   ApiSpec    runs the endpoints of backend/api/rag.py, from the         *)
(*              authenticated user to the call of the orchestrator.        *)
(***************************************************************************)
EXTENDS Integers, Sequences, FiniteSets, Bags, TLC

VARIABLES
    \* ---- DocumentProcessor._chunk_text (ChunkSpec) ----
    sentences,        \* the list returned by _split_into_sentences
    pos,              \* number of sentences the for-loop has consumed
    chunks,           \* chunks appended so far (each a list of sentences)
    current_chunk,    \* the chunk being packed
    current_tokens,   \* its running token count
    chunk_pc,         \* "loop" | "done"
    \* ---- DocumentProcessor._split_into_sentences (SplitSpec) ----
    fragments,        \* the list re.split returned
    split_pos,        \* number of fragments the for-loop has consumed
    cleaned_sentences,\* the sentences kept so far
    split_pc,         \* "loop" | "done"
    \* ---- the service (Spec) ----
    collection,       \* the ChromaDB collection: a set of stored passages
    next_uuid,        \* number of uuid4() values drawn for document ids
    together_client,  \* LLMClient.together_client is set
    openai_client,    \* LLMClient.openai_client is set
    reqs,             \* the bag of requests in flight, each with its local state
    last,             \* the response a handler has just produced, until it is returned
    written,          \* history: the batches add_documents has written
    removed           \* history: <<document id, user>> for which remove returned True

chunkerVars == <<sentences, pos, chunks, current_chunk, current_tokens, chunk_pc>>
splitVars == <<fragments, split_pos, cleaned_sentences, split_pc>>
chunkVars == <<sentences, pos, chunks, current_chunk, current_tokens, chunk_pc,
               fragments, split_pos, cleaned_sentences, split_pc>>
serviceVars == <<collection, next_uuid, together_client, openai_client, reqs,
                 last, written, removed>>
vars == <<sentences, pos, chunks, current_chunk, current_tokens, chunk_pc,
          fragments, split_pos, cleaned_sentences, split_pc,
          collection, next_uuid, together_client, openai_client, reqs,
          last, written, removed>>

-----------------------------------------------------------------------------
(* Bounds of the model.                                                    *)

\* longest sentence list given to the chunker in ChunkSpec
MaxSentences == 4
\* longest fragment list given to the sentence filter in SplitSpec
MaxFragments == 3
\* number of requests that can be in flight at once in Spec
MaxReqs == 2
\* number of document ids (uuid4 draws) a run of Spec hands out
MaxDocs == 2

-----------------------------------------------------------------------------
(* DocumentProcessor: tokenizer and chunker                                *)

\* DocumentProcessor.__init__
max_chunk_size == 1000
chunk_overlap == 200

\* The sentences the chunker is tried on.  A sentence is a string; the two
\* 100-token sentences differ as text and agree in length.
SentenceTexts == {"a100", "b100", "s200", "s500", "s900", "s1200"}

\* len(self.tokenizer.encode(sentence)) for the sentences above
TokenCount(s) ==
    CASE s = "a100" -> 100
      [] s = "b100" -> 100
      [] s = "s200" -> 200
      [] s = "s500" -> 500
      [] s = "s900" -> 900
      [] s = "s1200" -> 1200
      [] s = "t5" -> 5
      [] s = "u5" -> 5

\* the for-loop over reversed(current_chunk): k is the index of prev_sentence,
\* walking from Len(chunk) down to 1; stops at the first sentence that does
\* not fit (break) or when the chunk is exhausted.
RECURSIVE OverlapWalk(_, _, _, _)
OverlapWalk(chunk, k, overlap_chunk, overlap_tokens) ==
    IF k = 0 THEN [overlap_chunk |-> overlap_chunk, overlap_tokens |-> overlap_tokens]
    ELSE LET prev_tokens == TokenCount(chunk[k]) IN
         IF overlap_tokens + prev_tokens <= chunk_overlap
         THEN OverlapWalk(chunk, k - 1, <<chunk[k]>> \o overlap_chunk,
                          overlap_tokens + prev_tokens)
         ELSE [overlap_chunk |-> overlap_chunk, overlap_tokens |-> overlap_tokens]

\* the walk with the budget test written as a strict comparison
RECURSIVE OverlapWalkStrict(_, _, _, _)
OverlapWalkStrict(chunk, k, overlap_chunk, overlap_tokens) ==
    IF k = 0 THEN [overlap_chunk |-> overlap_chunk, overlap_tokens |-> overlap_tokens]
    ELSE LET prev_tokens == TokenCount(chunk[k]) IN
         IF overlap_tokens + prev_tokens < chunk_overlap
         THEN OverlapWalkStrict(chunk, k - 1, <<chunk[k]>> \o overlap_chunk,
                                overlap_tokens + prev_tokens)
         ELSE [overlap_chunk |-> overlap_chunk, overlap_tokens |-> overlap_tokens]

\* mutant of OverlapOf: "<" for "<=" at line 199
OverlapOfStrict(chunk) == OverlapWalkStrict(chunk, Len(chunk), <<>>, 0)

\* lines 192-203: the overlap window of a chunk that has just been closed
OverlapOf(chunk) == OverlapWalk(chunk, Len(chunk), <<>>, 0)

\* line 189: adding the sentence would exceed the limit and the chunk is non-empty
MustClose(cur_chunk, cur_tokens, sentence) ==
    cur_tokens + TokenCount(sentence) > max_chunk_size /\ cur_chunk # <<>>

\* mutant of CloseStep: the next chunk starts with the overlap window alone
CloseStepWindowOnly(st, sentence) ==
    LET ov == OverlapOf(st.current_chunk) IN
    [chunks |-> Append(st.chunks, st.current_chunk),
     current_chunk |-> ov.overlap_chunk,
     current_tokens |-> ov.overlap_tokens]

\* lines 190-206: the state after the if-branch
CloseStep(st, sentence) ==
    LET ov == OverlapOf(st.current_chunk) IN
    [chunks |-> Append(st.chunks, st.current_chunk),
     current_chunk |-> ov.overlap_chunk \o <<sentence>>,
     current_tokens |-> ov.overlap_tokens + TokenCount(sentence)]

\* lines 208-209: the state after the else-branch
AppendStep(st, sentence) ==
    [chunks |-> st.chunks,
     current_chunk |-> Append(st.current_chunk, sentence),
     current_tokens |-> st.current_tokens + TokenCount(sentence)]

\* one iteration of the for-loop at line 185
ChunkStep(st, sentence) ==
    IF MustClose(st.current_chunk, st.current_tokens, sentence)
    THEN CloseStep(st, sentence)
    ELSE AppendStep(st, sentence)

\* mutant of FinalChunks: the chunk in progress is not flushed after the loop
FinalChunksNoFlush(st) == st.chunks

\* lines 211-215: the last chunk is added if it has content
FinalChunks(st) ==
    IF st.current_chunk # <<>> THEN Append(st.chunks, st.current_chunk) ELSE st.chunks

RECURSIVE ChunkLoop(_, _, _)
ChunkLoop(sents, i, st) ==
    IF i > Len(sents) THEN st ELSE ChunkLoop(sents, i + 1, ChunkStep(st, sents[i]))

\* _chunk_text as a function of the sentence list
ChunkText(sents) ==
    FinalChunks(ChunkLoop(sents, 1, [chunks |-> <<>>, current_chunk |-> <<>>,
                                     current_tokens |-> 0]))

-----------------------------------------------------------------------------
(* The service: inputs                                                     *)

\* the authenticated users the endpoints pass as user_id
Owners == {"A", "B"}

\* mutant of DocumentId: the uuid is left out
DocumentIdNoUuid(user_id, n) == <<user_id, 1>>

\* process_document line 41: f"{user_id}_{uuid.uuid4().hex}", n the n-th uuid drawn
DocumentId(user_id, n) == <<user_id, n>>

\* a document id that process_document never hands out
UnknownDocumentId == DocumentId("A", 0)

\* ingest_document line 44: 50 * 1024 * 1024
max_size == 52428800

\* ingest_document line 54
allowed_extensions == {"pdf", "docx", "doc", "txt"}

\* process_document line 55: the shortest stripped text that is accepted
min_text_len == 50

\* str.lower() on the file-name parts used below
Lower(part) ==
    CASE part = "TXT" -> "txt"
      [] OTHER -> part

\* filename.lower().split('.')[-1]; a file name is the list of its dot-separated parts
Extension(filename) == Lower(filename[Len(filename)])

\* An extracted text is a list of runs of characters: a run of n characters
\* of plain text (text in which whitespace occurs as single spaces only), or
\* a run of n spaces, n tabs or n newlines.  Whitespace runs are separated by
\* plain text.
Run(kind, n) == [kind |-> kind, n |-> n]

\* len(text)
RECURSIVE TextLen(_)
TextLen(text) == IF text = <<>> THEN 0 ELSE Head(text).n + TextLen(Tail(text))

\* str.strip() on a text: leading and trailing whitespace runs are removed
RECURSIVE StripLeft(_)
StripLeft(text) ==
    IF text = <<>> \/ Head(text).kind = "plain" THEN text ELSE StripLeft(Tail(text))
RECURSIVE StripRight(_)
StripRight(text) ==
    IF text = <<>> \/ text[Len(text)].kind = "plain" THEN text
    ELSE StripRight(SubSeq(text, 1, Len(text) - 1))
StripText(text) == StripRight(StripLeft(text))

\* _clean_text lines 164-172 on one run: three or more newlines become two,
\* a run of spaces becomes one space, and then each tab becomes a space (the
\* run of spaces that gives is not collapsed: line 165 has already run)
CleanRun(run) ==
    CASE run.kind = "newline" -> Run("newline", IF run.n > 2 THEN 2 ELSE run.n)
      [] run.kind = "space" -> Run("space", 1)
      [] run.kind = "tab" -> Run("space", run.n)
      [] OTHER -> run

\* _clean_text
CleanText(text) == StripText([i \in 1..Len(text) |-> CleanRun(text[i])])

\* _split_into_sentences line 226: a fragment is kept when len(sentence) > 10
min_sentence_len == 10

\* _split_into_sentences lines 223-229 on the fragments re.split returned:
\* each is stripped and kept when it is longer than min_sentence_len
RECURSIVE SplitIntoSentences(_)
SplitIntoSentences(frags) ==
    IF frags = <<>> THEN <<>>
    ELSE LET sentence == StripText(Head(frags)) IN
         (IF TextLen(sentence) > min_sentence_len THEN <<sentence>> ELSE <<>>)
             \o SplitIntoSentences(Tail(frags))

\* What the extractor finds in the uploaded bytes: either it raises, or it
\* returns a text, given by its runs and by the sentences
\* _split_into_sentences(_clean_text(text)) returns for it.
Contents ==
    [one     |-> [raised |-> FALSE, text |-> <<Run("plain", 400)>>,
                  sentences |-> <<"s500">>],
     two     |-> [raised |-> FALSE, text |-> <<Run("plain", 4000), Run("newline", 1)>>,
                  sentences |-> <<"s500", "s200", "s900">>],
     spaced  |-> [raised |-> FALSE,
                  text |-> <<Run("plain", 20), Run("space", 25), Run("plain", 16)>>,
                  sentences |-> <<"t5", "u5">>],
     short   |-> [raised |-> FALSE,
                  text |-> <<Run("space", 30), Run("plain", 30), Run("newline", 5)>>,
                  sentences |-> <<>>],
     noise   |-> [raised |-> FALSE, text |-> <<Run("plain", 60)>>, sentences |-> <<>>],
     corrupt |-> [raised |-> TRUE,  text |-> <<>>, sentences |-> <<>>]]

\* the uploads the endpoints are tried on: two good ones, one whose text is
\* mostly a run of spaces, and one per failure
Files ==
    {[filename |-> <<"one", "txt">>,   size |-> 2048,         content |-> "one"],
     [filename |-> <<"two", "TXT">>,   size |-> 2048,         content |-> "two"],
     [filename |-> <<"gaps", "txt">>,  size |-> 2048,         content |-> "spaced"],
     [filename |-> <<>>,               size |-> 2048,         content |-> "one"],
     [filename |-> <<"big", "txt">>,   size |-> max_size + 1, content |-> "one"],
     [filename |-> <<"tool", "exe">>,  size |-> 2048,         content |-> "one"],
     [filename |-> <<"scan", "pdf">>,  size |-> 2048,         content |-> "corrupt"],
     [filename |-> <<"memo", "docx">>, size |-> 2048,         content |-> "short"],
     [filename |-> <<"dots", "txt">>,  size |-> 2048,         content |-> "noise"]}

\* A text (a chunk, a query) is a list of words; " " is a run of whitespace.

\* Optional[List[str]]: None, or a list of document ids
NoFilter == [present |-> FALSE, ids |-> <<>>]
EmptyFilter == [present |-> TRUE, ids |-> <<>>]
DocFilters(doc_ids) ==
    {NoFilter} \cup {[present |-> TRUE, ids |-> <<d>>] : d \in doc_ids}

-----------------------------------------------------------------------------
(* HTTP outcomes of the orchestrator                                       *)

\* raise HTTPException(status_code, detail)
HttpError(status_code, detail) == [status |-> status_code, detail |-> detail]

\* a returned dict
HttpOk(body) == [status |-> 200, detail |-> "", body |-> body]

-----------------------------------------------------------------------------
(* RAGService.ingest_document and DocumentProcessor.process_document       *)

\* mutant of ValidateUpload: the size test of lines 47-51 is missing
ValidateUploadNoSizeCheck(file) ==
    IF file.filename = <<>> THEN HttpError(400, "No filename provided")
    ELSE IF Extension(file.filename) \notin allowed_extensions
         THEN HttpError(400, "Unsupported file type")
         ELSE HttpOk(<<>>)

\* ingest_document lines 40-61: the checks made before the document is processed
ValidateUpload(file) ==
    IF file.filename = <<>> THEN HttpError(400, "No filename provided")
    ELSE IF file.size > max_size THEN HttpError(413, "File too large")
    ELSE IF Extension(file.filename) \notin allowed_extensions
         THEN HttpError(400, "Unsupported file type")
         ELSE HttpOk(<<>>)

\* _extract_pdf_text / _extract_docx_text / _extract_txt_text: each returns the
\* text or raises ValueError
ExtractText(file) == Contents[file.content]

\* process_document lines 62-77: one dict per chunk
ChunksWithMetadata(chunk_list, filename, document_id) ==
    [i \in 1..Len(chunk_list) |->
        [text |-> chunk_list[i],
         metadata |-> [filename |-> filename,
                       file_type |-> Extension(filename),
                       chunk_index |-> i - 1,
                       total_chunks |-> Len(chunk_list),
                       document_id |-> document_id]]]

\* process_document: raises, or returns (document_id, chunks_with_metadata)
ProcessDocument(file, user_id, document_id) ==
    LET file_extension == Extension(file.filename)
        ex == ExtractText(file)
    IN  IF file_extension \notin {"pdf", "docx", "doc", "txt"}
        THEN [raised |-> TRUE, detail |-> "Unsupported file type", chunks |-> <<>>]
        ELSE IF ex.raised
        THEN [raised |-> TRUE, detail |-> "Failed to extract", chunks |-> <<>>]
        ELSE IF TextLen(StripText(ex.text)) < min_text_len
        THEN [raised |-> TRUE, detail |-> "Document appears to be empty or too short",
              chunks |-> <<>>]
        ELSE [raised |-> FALSE, detail |-> "",
              chunks |-> ChunksWithMetadata(ChunkText(ex.sentences), file.filename,
                                            document_id)]

-----------------------------------------------------------------------------
(* VectorStore                                                             *)

\* add_documents line 62: f"{document_id}_{i}_{uuid8}"
ChunkId(document_id, i) == <<document_id, i>>

\* add_documents lines 62-75: the entries one collection.add call writes
Passages(texts, metadatas, user_id, document_id) ==
    {[id |-> ChunkId(document_id, i - 1),
      document |-> texts[i],
      metadata |-> [filename |-> metadatas[i].filename,
                    file_type |-> metadatas[i].file_type,
                    chunk_index |-> metadatas[i].chunk_index,
                    total_chunks |-> metadatas[i].total_chunks,
                    user_id |-> user_id,
                    document_id |-> document_id]] : i \in 1..Len(texts)}

\* mutant of StoreAdd: the batch is cut after its first entry
StoreAddFirstOnly(coll, batch) ==
    coll \cup {p \in batch : p.metadata.chunk_index = 0}

\* collection.add: the whole batch in one call
StoreAdd(coll, batch) == coll \cup batch

\* add_documents: raises (the store is unavailable, or it refuses an empty
\* batch) and leaves the collection alone, or writes the batch
AddDocuments(coll, texts, metadatas, user_id, document_id, store_ok) ==
    IF ~store_ok \/ texts = <<>>
    THEN [raised |-> TRUE, collection |-> coll, chunk_ids |-> {}]
    ELSE LET batch == Passages(texts, metadatas, user_id, document_id) IN
         [raised |-> FALSE, collection |-> StoreAdd(coll, batch),
          chunk_ids |-> {p.id : p \in batch}]

\* self.embedding_model.encode: texts with the same words get the same vector
Embed(text) == {text[i] : i \in 1..Len(text)}

\* the cosine distance of the collection, on the vectors above
Distance(va, vb) == Cardinality((va \ vb) \cup (vb \ va))

\* mutant of WhereMatches: a document filter replaces the user filter
WhereMatchesFilterOnly(p, user_id, document_ids) ==
    IF document_ids.present /\ document_ids.ids # <<>>
    THEN \E i \in 1..Len(document_ids.ids) : p.metadata.document_id = document_ids.ids[i]
    ELSE p.metadata.user_id = user_id

\* mutant of WhereMatches: an empty list of document ids is a filter too
WhereMatchesEmptyListMatchesNone(p, user_id, document_ids) ==
    /\ p.metadata.user_id = user_id
    /\ document_ids.present =>
          \E i \in 1..Len(document_ids.ids) : p.metadata.document_id = document_ids.ids[i]

\* search_similar lines 96-101: the where clause
WhereMatches(p, user_id, document_ids) ==
    /\ p.metadata.user_id = user_id
    /\ (document_ids.present /\ document_ids.ids # <<>>) =>
          \E i \in 1..Len(document_ids.ids) : p.metadata.document_id = document_ids.ids[i]

\* the place of an entry among entries at the same distance
RankKey(p, query_embedding) ==
    Distance(Embed(p.document), query_embedding) * 1000
        + p.metadata.document_id[2] * 10 + p.metadata.chunk_index

\* collection.query: the n_results nearest entries, nearest first
RECURSIVE Nearest(_, _, _)
Nearest(cands, query_embedding, n_results) ==
    IF n_results = 0 \/ cands = {} THEN <<>>
    ELSE LET best == CHOOSE p \in cands :
                        \A r \in cands :
                            RankKey(p, query_embedding) <= RankKey(r, query_embedding)
         IN  <<best>> \o Nearest(cands \ {best}, query_embedding, n_results - 1)

\* search_similar lines 111-120: one formatted result
FormatHit(p, query_embedding) ==
    [text |-> p.document,
     metadata |-> p.metadata,
     score |-> 1 - Distance(Embed(p.document), query_embedding),
     document_id |-> p.metadata.document_id]

\* search_similar
SearchSimilar(coll, query, user_id, n_results, document_ids) ==
    LET query_embedding == Embed(query)
        found == Nearest({p \in coll : WhereMatches(p, user_id, document_ids)},
                         query_embedding, n_results)
    IN  [i \in 1..Len(found) |-> FormatHit(found[i], query_embedding)]

\* mutant of StoreGetIds: the get is filtered by document id alone
StoreGetIdsAnyOwner(coll, document_id, user_id) ==
    {p.id : p \in {q \in coll : q.metadata.document_id = document_id}}

\* delete_document lines 133-138: collection.get(where document_id and user_id)
StoreGetIds(coll, document_id, user_id) ==
    {p.id : p \in {q \in coll : /\ q.metadata.document_id = document_id
                                /\ q.metadata.user_id = user_id}}

\* mutant of StoreDelete: only the first of the ids is deleted
StoreDeleteOneId(coll, ids) ==
    IF ids = {} THEN coll
    ELSE LET first == CHOOSE i \in ids : \A j \in ids : i[2] <= j[2] IN
         {p \in coll : p.id # first}

\* delete_document line 142: collection.delete(ids=...)
StoreDelete(coll, ids) == {p \in coll : p.id \notin ids}

\* get_user_document_count lines 155-165
UserDocumentCount(coll, user_id) ==
    Cardinality({p.metadata.document_id : p \in {q \in coll : q.metadata.user_id = user_id}})

-----------------------------------------------------------------------------
(* LLMClient                                                               *)

\* the text of an answer: who wrote it, and for the fallback answer what it
\* is built from
AnswerText(kind, count, preview, notice) ==
    [kind |-> kind, count |-> count, preview |-> preview, notice |-> notice]

\* text[:200]: the first 200 characters of a chunk text
TextPrefix(text) == [first_chars |-> 200, of |-> text]

\* _build_context: one part per chunk, for the first five chunks
BuildContext(context_chunks) ==
    IF context_chunks = <<>> THEN <<"No relevant documents found.">>
    ELSE [i \in 1..(IF Len(context_chunks) < 5 THEN Len(context_chunks) ELSE 5) |->
             [filename |-> context_chunks[i].metadata.filename,
              text |-> context_chunks[i].text,
              score |-> context_chunks[i].score]]

\* _create_user_prompt: the last three messages of the history, the context,
\* the question
CreateUserPrompt(query, context, chat_history) ==
    [history |-> IF Len(chat_history) <= 3 THEN chat_history
                 ELSE SubSeq(chat_history, Len(chat_history) - 2, Len(chat_history)),
     context |-> context,
     question |-> query]

\* mutant of FallbackResponse: the preview takes three chunks
FallbackResponseThree(context_chunks) ==
    IF context_chunks = <<>>
    THEN AnswerText("no_relevant_documents", 0, <<>>, FALSE)
    ELSE AnswerText("fallback", Len(context_chunks),
                    [i \in 1..(IF Len(context_chunks) < 3 THEN Len(context_chunks) ELSE 3) |->
                        <<context_chunks[i].metadata.filename,
                          TextPrefix(context_chunks[i].text)>>],
                    TRUE)

\* _generate_fallback_response
FallbackResponse(context_chunks) ==
    IF context_chunks = <<>>
    THEN AnswerText("no_relevant_documents", 0, <<>>, FALSE)
    ELSE AnswerText("fallback", Len(context_chunks),
                    [i \in 1..(IF Len(context_chunks) < 2 THEN Len(context_chunks) ELSE 2) |->
                        <<context_chunks[i].metadata.filename,
                          TextPrefix(context_chunks[i].text)>>],
                    TRUE)

\* _extract_sources: one entry per document id, in order of first occurrence
RECURSIVE SourcesFrom(_, _, _)
SourcesFrom(context_chunks, i, seen_docs) ==
    IF i > Len(context_chunks) THEN <<>>
    ELSE LET doc_id == context_chunks[i].metadata.document_id IN
         IF doc_id \notin seen_docs
         THEN <<[document_id |-> doc_id,
                 filename |-> context_chunks[i].metadata.filename,
                 relevance_score |-> context_chunks[i].score,
                 chunk_count |-> Cardinality({j \in 1..Len(context_chunks) :
                                    context_chunks[j].metadata.document_id = doc_id})]>>
              \o SourcesFrom(context_chunks, i + 1, seen_docs \cup {doc_id})
         ELSE SourcesFrom(context_chunks, i + 1, seen_docs)

\* mutant of ExtractSources: the loop starts at the second chunk
ExtractSourcesSkipFirst(context_chunks) == SourcesFrom(context_chunks, 2, {})

ExtractSources(context_chunks) == SourcesFrom(context_chunks, 1, {})

\* mutant of ActiveModel: the OpenAI client is looked at first
ActiveModelOpenAIFirst(together, openai) ==
    IF openai THEN "gpt-3.5-turbo"
    ELSE IF together THEN "meta-llama/Llama-2-70b-chat-hf"
    ELSE "fallback"

\* _get_active_model
ActiveModel(together, openai) ==
    IF together THEN "meta-llama/Llama-2-70b-chat-hf"
    ELSE IF openai THEN "gpt-3.5-turbo"
    ELSE "fallback"

\* generate_response lines 71-78: the providers this request calls, in order
ProvidersCalled(together, openai) ==
    IF together THEN <<"together">>
    ELSE IF openai THEN <<"openai">>
    ELSE <<>>

\* the model named in the provider call (lines 162 and 182)
ProviderModel(provider) ==
    CASE provider = "together" -> "meta-llama/Llama-2-70b-chat-hf"
      [] provider = "openai" -> "gpt-3.5-turbo"

\* generate_response: the dict it returns.  provider_ok tells whether the
\* provider call, if one is made, returns; when it raises, the except clause
\* of lines 90-97 builds the dict.
GenerateResponse(context_chunks, together, openai, provider_ok) ==
    LET called == ProvidersCalled(together, openai) IN
    IF called # <<>> /\ ~provider_ok
    THEN [response |-> AnswerText("apology", 0, <<>>, FALSE),
          sources |-> <<>>,
          context_used |-> 0,
          error |-> "provider call failed"]
    ELSE [response |-> IF called # <<>> THEN AnswerText(called[1], 0, <<>>, FALSE)
                       ELSE FallbackResponse(context_chunks),
          sources |-> ExtractSources(context_chunks),
          context_used |-> Len(context_chunks),
          model |-> ActiveModel(together, openai)]

-----------------------------------------------------------------------------
(* Spec: the orchestrator's requests against the shared collection         *)

\* query_documents line 129
top_k == 5

Idle == [op |-> "idle"]

\* mutant of Strip: whitespace is kept
StripNothing(text) == text

\* str.strip() on a query text: what is left once whitespace is removed
Strip(text) ==
    LET keep == {i \in 1..Len(text) : text[i] # " "} IN
    IF keep = {} THEN <<>> ELSE text

\* mutant of NoInformationResult: no suggestions
NoInformationResultNoSuggestions ==
    [response |-> AnswerText("no_relevant_information", 0, <<>>, FALSE),
     sources |-> <<>>,
     context_used |-> 0,
     suggestions |-> <<>>]

\* query_documents lines 134-143: the result when nothing was retrieved
NoInformationResult ==
    [response |-> AnswerText("no_relevant_information", 0, <<>>, FALSE),
     sources |-> <<>>,
     context_used |-> 0,
     suggestions |-> <<"Try rephrasing your question",
                       "Upload documents related to your topic",
                       "Check if your documents contain the information you're looking for">>]

\* mutant of DeleteResponse: False is reported as a deletion too
DeleteResponseAlwaysDeleted(document_id, success) ==
    HttpOk([document_id |-> document_id, status |-> "deleted"])

\* delete_document (rag_service) lines 183-194: what the caller gets for the
\* value vector_store.delete_document returned
DeleteResponse(document_id, success) ==
    IF success
    THEN HttpOk([document_id |-> document_id, status |-> "deleted"])
    ELSE HttpError(404, "Document not found or you don't have permission to delete it")

\* the except clauses of rag_service: any other exception becomes a 500
InternalError(what) == HttpError(500, what)

\* ingest_document line 99: f"Failed to process document: {str(e)}", a 500
\* whose detail ends with the message of the exception e
ProcessingError(e) ==
    [status |-> 500, detail |-> "Failed to process document", cause |-> e]

ServiceIdle ==
    /\ collection = {}
    /\ next_uuid = 0
    /\ together_client = FALSE
    /\ openai_client = FALSE
    /\ reqs = EmptyBag
    /\ last = Idle
    /\ written = {}
    /\ removed = {}

SplitterIdle ==
    /\ fragments = <<>>
    /\ split_pos = 0
    /\ cleaned_sentences = <<>>
    /\ split_pc = "done"

ChunkerIdle ==
    /\ sentences = <<>>
    /\ pos = 0
    /\ chunks = <<>>
    /\ current_chunk = <<>>
    /\ current_tokens = 0
    /\ chunk_pc = "done"
    /\ SplitterIdle

\* Spec starts with an empty collection in a process that has no provider
\* key in its environment (LLMClient._initialize_clients sets neither client);
\* GenSpec below starts from every provider configuration.
Init ==
    /\ ServiceIdle
    /\ ChunkerIdle

\* no response is waiting to be returned
Running == last.op = "idle"

\* one more request can be taken
CanAccept ==
    /\ Running
    /\ BagCardinality(reqs) < MaxReqs

\* request r is in flight and no response is waiting
InFlight(r) ==
    /\ Running
    /\ BagIn(r, reqs)

\* A request that ends before its handler reaches the collection (a rejected
\* upload, a blank query, a store that cannot be reached) reads and writes
\* nothing that other requests share: its place among their steps makes no
\* difference, and it is taken when no other request is in flight.
Quiet == reqs = EmptyBag

\* a handler that has not ended yet: its local state goes from old to new
\* (old = Idle when the request has just been taken)
Continue(old, new) ==
    /\ reqs' = (IF old = Idle THEN reqs ELSE reqs (-) SetToBag({old})) (+) SetToBag({new})
    /\ UNCHANGED last

\* a handler ends with resp, a returned dict or a raised HTTPException;
\* `before` keeps the collection as it was when the handler's last step began
Finish(old, request, resp) ==
    /\ reqs' = (IF old = Idle THEN reqs ELSE reqs (-) SetToBag({old}))
    /\ last' = [op |-> request.op, request |-> request, resp |-> resp,
                before |-> collection]

\* ingest_document lines 38-71: validation and process_document
IngestBegin(user_id, file) ==
    /\ CanAccept
    /\ LET request == [op |-> "ingest", pc |-> "add", user_id |-> user_id, file |-> file,
                       document_id |-> UnknownDocumentId, chunks_with_metadata |-> <<>>]
           checked == ValidateUpload(file)
       IN  IF checked.status # 200
           THEN /\ Quiet
                /\ Finish(Idle, request, checked)
                /\ UNCHANGED next_uuid
           ELSE /\ next_uuid < MaxDocs
                /\ LET document_id == DocumentId(user_id, next_uuid + 1)
                       processed == ProcessDocument(file, user_id, document_id)
                   IN  IF processed.raised
                       THEN /\ Quiet
                            /\ Finish(Idle, request, ProcessingError(processed.detail))
                            /\ UNCHANGED next_uuid
                       ELSE /\ Continue(Idle, [request EXCEPT
                                   !.document_id = document_id,
                                   !.chunks_with_metadata = processed.chunks])
                            /\ next_uuid' = next_uuid + 1
    /\ UNCHANGED <<collection, together_client, openai_client, written, removed>>
    /\ UNCHANGED chunkVars

\* ingest_document lines 73-93: add_documents and the result
IngestAdd(r, store_ok) ==
    /\ InFlight(r)
    /\ r.op = "ingest"
    /\ r.pc = "add"
    /\ LET texts == [i \in 1..Len(r.chunks_with_metadata) |-> r.chunks_with_metadata[i].text]
           metadatas == [i \in 1..Len(r.chunks_with_metadata) |->
                            r.chunks_with_metadata[i].metadata]
           added == AddDocuments(collection, texts, metadatas, r.user_id, r.document_id,
                                 store_ok)
       IN  /\ collection' = added.collection
           /\ IF added.raised
              THEN /\ Finish(r, r, ProcessingError("collection.add failed"))
                   /\ UNCHANGED written
              ELSE /\ Finish(r, r, HttpOk([document_id |-> r.document_id,
                                           filename |-> r.file.filename,
                                           file_size |-> r.file.size,
                                           file_type |-> Extension(r.file.filename),
                                           chunks_created |-> Len(r.chunks_with_metadata),
                                           processing_status |-> "completed"]))
                   /\ written' = written \cup {[document_id |-> r.document_id,
                                                user_id |-> r.user_id,
                                                file |-> r.file,
                                                ids |-> added.chunk_ids]}
    /\ UNCHANGED <<next_uuid, together_client, openai_client, removed>>
    /\ UNCHANGED chunkVars

\* query_documents lines 120-143: the empty-query test and the search
QuerySearch(user_id, query, document_ids, store_ok) ==
    /\ CanAccept
    /\ LET request == [op |-> "query", pc |-> "generate", user_id |-> user_id,
                       query |-> query, document_ids |-> document_ids,
                       relevant_chunks |-> <<>>, called |-> <<>>,
                       provider_failed |-> FALSE,
                       searched |-> FALSE, generated |-> FALSE]
           searching == [request EXCEPT !.searched = TRUE]
       IN  IF Strip(query) = <<>>
           THEN /\ Quiet
                /\ Finish(Idle, request, HttpError(400, "Query cannot be empty"))
           ELSE IF ~store_ok
           THEN /\ Quiet
                /\ Finish(Idle, searching, InternalError("Failed to process query"))
           ELSE LET relevant_chunks ==
                        SearchSimilar(collection, query, user_id, top_k, document_ids)
                IN  IF relevant_chunks = <<>>
                    THEN Finish(Idle, searching, HttpOk(NoInformationResult))
                    ELSE Continue(Idle, [searching EXCEPT
                                             !.relevant_chunks = relevant_chunks])
    /\ UNCHANGED <<collection, next_uuid, together_client, openai_client, written, removed>>
    /\ UNCHANGED chunkVars

\* response_data.update(...) of lines 154-158
WithQueryMetadata(response_data, query, total) ==
    [k \in DOMAIN response_data \cup {"query", "timestamp", "total_documents_searched"} |->
        CASE k = "query" -> query
          [] k = "timestamp" -> "utcnow"
          [] k = "total_documents_searched" -> total
          [] OTHER -> response_data[k]]

\* api/rag.py lines 20-27: the fields of the response model, all required
QueryResponseFields ==
    {"response", "sources", "context_used", "model", "query", "timestamp",
     "total_documents_searched"}

\* api/rag.py line 84: QueryResponse(**result) raises a validation error when
\* a required field is missing, and drops the keys that are no field
QueryResponse(result) ==
    IF QueryResponseFields \subseteq DOMAIN result
    THEN [raised |-> FALSE, value |-> [k \in QueryResponseFields |-> result[k]]]
    ELSE [raised |-> TRUE, value |-> <<>>]

\* mutant of QueryGenerate: the passages used as context are dropped from the
\* collection
QueryGenerateEvicts(r, provider_ok, store_ok) ==
    /\ InFlight(r)
    /\ r.op = "query"
    /\ r.pc = "generate"
    /\ LET response_data == GenerateResponse(r.relevant_chunks, together_client,
                                             openai_client, provider_ok)
           total == IF store_ok THEN UserDocumentCount(collection, r.user_id) ELSE 0
           called == ProvidersCalled(together_client, openai_client)
           request == [r EXCEPT !.called = called,
                                !.provider_failed = (called # <<>> /\ ~provider_ok),
                                !.generated = TRUE]
       IN  Finish(r, request, HttpOk(WithQueryMetadata(response_data, r.query, total)))
    /\ collection' = {p \in collection :
                         \A i \in 1..Len(r.relevant_chunks) :
                             p.metadata # r.relevant_chunks[i].metadata}
    /\ UNCHANGED <<next_uuid, together_client, openai_client, written, removed>>
    /\ UNCHANGED chunkVars

\* query_documents lines 145-160: generate_response, which reads nothing that
\* other requests write, then the document count (0 when the store fails)
\* and the result
QueryGenerate(r, provider_ok, store_ok) ==
    /\ InFlight(r)
    /\ r.op = "query"
    /\ r.pc = "generate"
    /\ LET response_data == GenerateResponse(r.relevant_chunks, together_client,
                                             openai_client, provider_ok)
           total == IF store_ok THEN UserDocumentCount(collection, r.user_id) ELSE 0
           called == ProvidersCalled(together_client, openai_client)
           request == [r EXCEPT !.called = called,
                                !.provider_failed = (called # <<>> /\ ~provider_ok),
                                !.generated = TRUE]
       IN  Finish(r, request, HttpOk(WithQueryMetadata(response_data, r.query, total)))
    /\ UNCHANGED <<collection, next_uuid, together_client, openai_client, written, removed>>
    /\ UNCHANGED chunkVars

\* delete_document lines 133-146 of the store, up to the get
DeleteGet(user_id, document_id, store_ok) ==
    /\ CanAccept
    /\ LET request == [op |-> "delete", pc |-> "remove", user_id |-> user_id,
                       document_id |-> document_id, ids |-> {}]
       IN  IF ~store_ok
           THEN /\ Quiet
                /\ Finish(Idle, request, InternalError("Failed to delete document"))
           ELSE LET ids == StoreGetIds(collection, document_id, user_id) IN
                IF ids = {}
                THEN Finish(Idle, request, DeleteResponse(document_id, FALSE))
                ELSE Continue(Idle, [request EXCEPT !.ids = ids])
    /\ UNCHANGED <<collection, next_uuid, together_client, openai_client, written, removed>>
    /\ UNCHANGED chunkVars

\* delete_document line 142 of the store and lines 183-189 of the service
DeleteRemove(r, store_ok) ==
    /\ InFlight(r)
    /\ r.op = "delete"
    /\ r.pc = "remove"
    /\ IF ~store_ok
       THEN /\ Finish(r, r, InternalError("Failed to delete document"))
            /\ UNCHANGED <<collection, removed>>
       ELSE /\ collection' = StoreDelete(collection, r.ids)
            /\ removed' = removed \cup {<<r.document_id, r.user_id>>}
            /\ Finish(r, r, DeleteResponse(r.document_id, TRUE))
    /\ UNCHANGED <<next_uuid, together_client, openai_client, written>>
    /\ UNCHANGED chunkVars

\* get_user_stats lines 212-221; get_user_document_count returns 0 when the
\* store raises (lines 167-169)
GetUserStats(user_id, store_ok) ==
    /\ CanAccept
    /\ ~store_ok => Quiet
    /\ LET document_count ==
               IF store_ok THEN UserDocumentCount(collection, user_id) ELSE 0
       IN  Finish(Idle, [op |-> "stats", user_id |-> user_id, store_ok |-> store_ok],
                  HttpOk([user_id |-> user_id,
                          total_documents |-> document_count,
                          rag_enabled |-> (document_count > 0),
                          vector_store_status |-> "active",
                          llm_status |-> ActiveModel(together_client, openai_client)]))
    /\ UNCHANGED <<collection, next_uuid, together_client, openai_client, written, removed>>
    /\ UNCHANGED chunkVars

\* generate_response called on a hit list and a history: lines 61-97
Generate(query, context_chunks, chat_history, provider_ok) ==
    /\ CanAccept
    /\ Quiet
    /\ LET user_prompt == CreateUserPrompt(query, BuildContext(context_chunks),
                                           chat_history)
           called == ProvidersCalled(together_client, openai_client)
       IN  Finish(Idle,
                  [op |-> "generate", query |-> query, context_chunks |-> context_chunks,
                   chat_history |-> chat_history, user_prompt |-> user_prompt,
                   called |-> called,
                   provider_failed |-> (called # <<>> /\ ~provider_ok)],
                  GenerateResponse(context_chunks, together_client, openai_client,
                                   provider_ok))
    /\ UNCHANGED <<collection, next_uuid, together_client, openai_client, written, removed>>
    /\ UNCHANGED chunkVars

\* the response waiting in `last` goes back to the caller
Return ==
    /\ ~Running
    /\ last' = Idle
    /\ UNCHANGED <<collection, next_uuid, together_client, openai_client, reqs,
                   written, removed>>
    /\ UNCHANGED chunkVars

\* the document ids a caller names in a delete or in a document filter: the
\* ids handed out so far, whoever owns them, and one that never was
RequestableDocIds ==
    {w.document_id : w \in written} \cup {UnknownDocumentId}

\* the queries the endpoint is tried on: an empty and a blank one, one that finds the store
\* unavailable, and one per document filter in `filters`
QueryInputs(filters) ==
    {[query |-> <<>>, document_ids |-> NoFilter, store_ok |-> TRUE],
     [query |-> <<" ">>, document_ids |-> NoFilter, store_ok |-> TRUE],
     [query |-> <<"s500">>, document_ids |-> NoFilter, store_ok |-> FALSE]}
        \cup {[query |-> <<"s500">>, document_ids |-> f, store_ok |-> TRUE] : f \in filters}

\* the outcomes of the provider call of one request: it returns, or, when
\* there is a provider to call, it may raise
ProviderOutcomes ==
    IF ProvidersCalled(together_client, openai_client) = <<>> THEN {TRUE} ELSE BOOLEAN

Next ==
    \/ \E u \in Owners, f \in Files : IngestBegin(u, f)
    \/ \E r \in BagToSet(reqs), ok \in BOOLEAN : IngestAdd(r, ok)
    \/ \E u \in Owners, q \in QueryInputs(DocFilters(RequestableDocIds)) :
          QuerySearch(u, q.query, q.document_ids, q.store_ok)
    \/ \E r \in BagToSet(reqs), provider_ok \in ProviderOutcomes, store_ok \in BOOLEAN :
          QueryGenerate(r, provider_ok, store_ok)
    \/ \E u \in Owners, d \in RequestableDocIds, ok \in BOOLEAN : DeleteGet(u, d, ok)
    \/ \E r \in BagToSet(reqs), ok \in BOOLEAN : DeleteRemove(r, ok)
    \/ Return

Spec == Init /\ [][Next]_vars

-----------------------------------------------------------------------------
(* GenSpec: the query handler and the answer generator, for every provider *)
(* configuration, on collections that earlier ingests have filled          *)

\* what one successful ingest of `file` by user_id, as the n-th document,
\* adds to the collection
IngestedBatch(user_id, file, n) ==
    LET document_id == DocumentId(user_id, n)
        cwm == ProcessDocument(file, user_id, document_id).chunks
    IN  Passages([i \in 1..Len(cwm) |-> cwm[i].text],
                 [i \in 1..Len(cwm) |-> cwm[i].metadata], user_id, document_id)

FileOne == [filename |-> <<"one", "txt">>, size |-> 2048, content |-> "one"]
FileTwo == [filename |-> <<"two", "TXT">>, size |-> 2048, content |-> "two"]

\* the histories GenSpec starts from: the uploads, in order, each with
\* whether its document was deleted afterwards.  The last one is six uploads
\* of the same bytes by one user.
SampleHistories ==
    {<<>>,
     <<[user_id |-> "A", file |-> FileOne, deleted |-> FALSE]>>,
     <<[user_id |-> "A", file |-> FileTwo, deleted |-> FALSE],
       [user_id |-> "B", file |-> FileOne, deleted |-> FALSE]>>,
     <<[user_id |-> "A", file |-> FileTwo, deleted |-> FALSE],
       [user_id |-> "A", file |-> FileOne, deleted |-> FALSE],
       [user_id |-> "A", file |-> FileTwo, deleted |-> FALSE]>>,
     <<[user_id |-> "A", file |-> FileTwo, deleted |-> TRUE],
       [user_id |-> "B", file |-> FileTwo, deleted |-> FALSE],
       [user_id |-> "A", file |-> FileOne, deleted |-> FALSE]>>,
     [n \in 1..6 |-> [user_id |-> "A", file |-> FileOne, deleted |-> FALSE]]}

\* the collection a history leaves: every batch is added, and the ids of a
\* deleted document are deleted
HistoryCollection(h) ==
    StoreDelete(UNION {IngestedBatch(h[n].user_id, h[n].file, n) : n \in 1..Len(h)},
                UNION {{p.id : p \in IngestedBatch(h[n].user_id, h[n].file, n)} :
                          n \in {m \in 1..Len(h) : h[m].deleted}})

GenInit ==
    /\ \E h \in SampleHistories :
          /\ collection = HistoryCollection(h)
          /\ written = {[document_id |-> DocumentId(h[n].user_id, n),
                         user_id |-> h[n].user_id,
                         file |-> h[n].file,
                         ids |-> {p.id : p \in IngestedBatch(h[n].user_id, h[n].file, n)}] :
                            n \in 1..Len(h)}
          /\ removed = {<<DocumentId(h[n].user_id, n), h[n].user_id>> :
                            n \in {m \in 1..Len(h) : h[m].deleted}}
          /\ next_uuid = Len(h)
    /\ together_client \in BOOLEAN
    /\ openai_client \in BOOLEAN
    /\ reqs = EmptyBag
    /\ last = Idle
    /\ ChunkerIdle

\* the hit lists generate_response is tried on: the hits of a search, their
\* prefixes (the empty list among them), the hits in reverse order, and the
\* hits of a search with n_results one above the five of query_documents
Reverse(seq) == [i \in 1..Len(seq) |-> seq[Len(seq) + 1 - i]]
HitLists ==
    UNION {LET hits == SearchSimilar(collection, <<"s500">>, u, top_k, NoFilter) IN
           {SubSeq(hits, 1, k) : k \in 0..Len(hits)} \cup {Reverse(hits)}
               \cup {SearchSimilar(collection, <<"s500">>, u, top_k + 1, NoFilter)} :
           u \in Owners}

\* the conversation histories generate_response is tried on
ChatHistories ==
    LET asked == [role |-> "user", content |-> "question"]
        told == [role |-> "assistant", content |-> "answer"]
    IN  {<<>>, <<asked>>, <<asked, told, asked, told>>}

GenNext ==
    \/ \E u \in Owners,
          q \in QueryInputs(DocFilters(RequestableDocIds) \cup {EmptyFilter}) :
          QuerySearch(u, q.query, q.document_ids, q.store_ok)
    \/ \E r \in BagToSet(reqs), provider_ok \in ProviderOutcomes, store_ok \in BOOLEAN :
          QueryGenerate(r, provider_ok, store_ok)
    \/ \E u \in Owners, ok \in BOOLEAN : GetUserStats(u, ok)
    \/ \E hits \in HitLists, h \in ChatHistories, provider_ok \in ProviderOutcomes :
          Generate(<<"s500">>, hits, h, provider_ok)
    \/ Return

GenSpec == GenInit /\ [][GenNext]_vars

-----------------------------------------------------------------------------
(* ApiSpec: the endpoints of backend/api/rag.py                            *)

\* auth/middleware.py lines 56-61: the dict get_current_user returns for a
\* verified user
GetCurrentUser(user) ==
    [user_id |-> user, email |-> "email", aud |-> "authenticated",
     role |-> "authenticated"]

\* dict[key]: the value, or KeyError
Lookup(dict, key) ==
    IF key \in DOMAIN dict THEN [raised |-> FALSE, value |-> dict[key]]
    ELSE [raised |-> TRUE, value |-> ""]

\* api/rag.py lines 60, 79, 98, 112: current_user["id"]
CurrentUserId(user) == Lookup(GetCurrentUser(user), "id")

\* an exception no handler catches: the server answers 500
UnhandledError == HttpError(500, "Internal Server Error")

\* an endpoint that ends with the KeyError of the lookup, before the
\* orchestrator is called
EndpointFails(endpoint, user) ==
    /\ CanAccept
    /\ Quiet
    /\ Finish(Idle, [op |-> "endpoint", endpoint |-> endpoint, user |-> user,
                     current_user |-> GetCurrentUser(user), core_called |-> FALSE],
              UnhandledError)
    /\ UNCHANGED <<collection, next_uuid, together_client, openai_client, written, removed>>
    /\ UNCHANGED chunkVars

\* POST /rag/upload
UploadDocumentEndpoint(user, file) ==
    IF CurrentUserId(user).raised THEN EndpointFails("upload", user)
    ELSE IngestBegin(CurrentUserId(user).value, file)

\* POST /rag/query
QueryDocumentsEndpoint(user, query, document_ids, store_ok) ==
    IF CurrentUserId(user).raised THEN EndpointFails("query", user)
    ELSE QuerySearch(CurrentUserId(user).value, query, document_ids, store_ok)

\* DELETE /rag/documents/{document_id}
DeleteDocumentEndpoint(user, document_id, store_ok) ==
    IF CurrentUserId(user).raised THEN EndpointFails("delete", user)
    ELSE DeleteGet(CurrentUserId(user).value, document_id, store_ok)

\* GET /rag/stats
GetUserStatsEndpoint(user, store_ok) ==
    IF CurrentUserId(user).raised THEN EndpointFails("stats", user)
    ELSE GetUserStats(CurrentUserId(user).value, store_ok)

ApiNext ==
    \/ \E u \in Owners, f \in Files : UploadDocumentEndpoint(u, f)
    \/ \E u \in Owners, q \in QueryInputs(DocFilters(RequestableDocIds)) :
          QueryDocumentsEndpoint(u, q.query, q.document_ids, q.store_ok)
    \/ \E u \in Owners, d \in RequestableDocIds, ok \in BOOLEAN :
          DeleteDocumentEndpoint(u, d, ok)
    \/ \E u \in Owners, ok \in BOOLEAN : GetUserStatsEndpoint(u, ok)
    \/ Return

ApiSpec == GenInit /\ [][ApiNext]_vars

-----------------------------------------------------------------------------
(* ChunkSpec: _chunk_text, one loop iteration per step                     *)

RECURSIVE SeqsUpTo(_, _)
SeqsUpTo(S, n) ==
    IF n = 0 THEN {<<>>}
    ELSE LET shorter == SeqsUpTo(S, n - 1) IN
         shorter \cup {Append(q, x) : q \in {r \in shorter : Len(r) = n - 1}, x \in S}

ChunkState == [chunks |-> chunks, current_chunk |-> current_chunk,
               current_tokens |-> current_tokens]

ChunkInit ==
    /\ sentences \in SeqsUpTo(SentenceTexts, MaxSentences)
    /\ pos = 0
    /\ chunks = <<>>
    /\ current_chunk = <<>>
    /\ current_tokens = 0
    /\ chunk_pc = "loop"
    /\ SplitterIdle
    /\ ServiceIdle

\* an iteration that takes the if-branch (line 189)
ChunkClose ==
    /\ chunk_pc = "loop"
    /\ pos < Len(sentences)
    /\ MustClose(current_chunk, current_tokens, sentences[pos + 1])
    /\ LET st == CloseStep(ChunkState, sentences[pos + 1]) IN
        /\ chunks' = st.chunks
        /\ current_chunk' = st.current_chunk
        /\ current_tokens' = st.current_tokens
    /\ pos' = pos + 1
    /\ UNCHANGED <<sentences, chunk_pc>>
    /\ UNCHANGED splitVars
    /\ UNCHANGED serviceVars

\* an iteration that takes the else-branch (line 207)
ChunkAppend ==
    /\ chunk_pc = "loop"
    /\ pos < Len(sentences)
    /\ ~MustClose(current_chunk, current_tokens, sentences[pos + 1])
    /\ LET st == AppendStep(ChunkState, sentences[pos + 1]) IN
        /\ chunks' = st.chunks
        /\ current_chunk' = st.current_chunk
        /\ current_tokens' = st.current_tokens
    /\ pos' = pos + 1
    /\ UNCHANGED <<sentences, chunk_pc>>
    /\ UNCHANGED splitVars
    /\ UNCHANGED serviceVars

\* the loop is over: lines 211-215
ChunkFinish ==
    /\ chunk_pc = "loop"
    /\ pos = Len(sentences)
    /\ chunks' = FinalChunks(ChunkState)
    /\ chunk_pc' = "done"
    /\ UNCHANGED <<sentences, pos, current_chunk, current_tokens>>
    /\ UNCHANGED splitVars
    /\ UNCHANGED serviceVars

ChunkNext == ChunkClose \/ ChunkAppend \/ ChunkFinish

ChunkSpec == ChunkInit /\ [][ChunkNext]_vars

\* _chunk_text is straight-line code around a for-loop over a list: a call
\* that is not over takes its next step
ChunkFairSpec == ChunkSpec /\ WF_vars(ChunkNext)

-----------------------------------------------------------------------------
(* SplitSpec: the filter loop of _split_into_sentences, one fragment per   *)
(* step                                                                    *)

\* the fragments the filter is tried on: the empty one, fragments of 9, 10
\* and 11 characters, one of 9 characters behind two spaces, and a long one
FragmentTexts ==
    {<<>>, <<Run("plain", 9)>>, <<Run("plain", 10)>>, <<Run("plain", 11)>>,
     <<Run("space", 2), Run("plain", 9)>>, <<Run("plain", 40)>>}

SplitInit ==
    /\ fragments \in SeqsUpTo(FragmentTexts, MaxFragments)
    /\ split_pos = 0
    /\ cleaned_sentences = <<>>
    /\ split_pc = "loop"
    /\ sentences = <<>>
    /\ pos = 0
    /\ chunks = <<>>
    /\ current_chunk = <<>>
    /\ current_tokens = 0
    /\ chunk_pc = "done"
    /\ ServiceIdle

\* an iteration whose fragment passes the test of line 226
SplitKeep ==
    /\ split_pc = "loop"
    /\ split_pos < Len(fragments)
    /\ LET sentence == StripText(fragments[split_pos + 1]) IN
        /\ TextLen(sentence) > min_sentence_len
        /\ cleaned_sentences' = Append(cleaned_sentences, sentence)
    /\ split_pos' = split_pos + 1
    /\ UNCHANGED <<fragments, split_pc>>
    /\ UNCHANGED chunkerVars
    /\ UNCHANGED serviceVars

\* an iteration whose fragment fails it
SplitDrop ==
    /\ split_pc = "loop"
    /\ split_pos < Len(fragments)
    /\ TextLen(StripText(fragments[split_pos + 1])) <= min_sentence_len
    /\ split_pos' = split_pos + 1
    /\ UNCHANGED <<fragments, cleaned_sentences, split_pc>>
    /\ UNCHANGED chunkerVars
    /\ UNCHANGED serviceVars

\* the loop is over: line 229
SplitFinish ==
    /\ split_pc = "loop"
    /\ split_pos = Len(fragments)
    /\ split_pc' = "done"
    /\ UNCHANGED <<fragments, split_pos, cleaned_sentences>>
    /\ UNCHANGED chunkerVars
    /\ UNCHANGED serviceVars

SplitNext == SplitKeep \/ SplitDrop \/ SplitFinish

SplitSpec == SplitInit /\ [][SplitNext]_vars

-----------------------------------------------------------------------------
(* Properties of the chunker (ChunkSpec)                                   *)

RECURSIVE SumTokens(_)
SumTokens(chunk) ==
    IF chunk = <<>> THEN 0 ELSE TokenCount(Head(chunk)) + SumTokens(Tail(chunk))

\* the last w sentences of a chunk, in their original order
Suffix(chunk, w) == SubSeq(chunk, Len(chunk) - w + 1, Len(chunk))

\* the length of the longest suffix of a chunk that fits the overlap budget,
\* stated without reference to the walk of the code
WindowLen(chunk) ==
    CHOOSE w \in 0..Len(chunk) :
        /\ SumTokens(Suffix(chunk, w)) <= chunk_overlap
        /\ \A v \in 0..Len(chunk) :
              SumTokens(Suffix(chunk, v)) <= chunk_overlap => v <= w

\* the length of the overlap window chunk k starts with
LeadLen(k) == IF k = 1 THEN 0 ELSE WindowLen(chunks[k - 1])

\* the sentences of chunk k that follow its overlap window
NonOverlap(k) == SubSeq(chunks[k], LeadLen(k) + 1, Len(chunks[k]))

RECURSIVE ConcatNonOverlap(_)
ConcatNonOverlap(k) == IF k = 0 THEN <<>> ELSE ConcatNonOverlap(k - 1) \o NonOverlap(k)

\* C6: every emitted chunk has a token count (the sum of its sentences' token
\* counts) of at most max_chunk_size, unless it is exactly one sentence that
\* alone exceeds max_chunk_size; chunks that start with an overlap window
\* included.
C6_ChunkWithinBudget ==
    chunk_pc = "done" =>
        \A k \in 1..Len(chunks) :
            \/ SumTokens(chunks[k]) <= max_chunk_size
            \/ Len(chunks[k]) = 1 /\ TokenCount(chunks[k][1]) > max_chunk_size

\* C7: the sentences that follow each chunk's overlap window (all sentences of
\* the first chunk), concatenated in chunk order, are exactly the sentence
\* list the chunker was given.
C7_NonOverlapReconstructs ==
    chunk_pc = "done" =>
        /\ \A k \in 1..Len(chunks) : LeadLen(k) < Len(chunks[k])
        /\ ConcatNonOverlap(Len(chunks)) = sentences

\* C7 witness: a finished run over three or more sentences whose second chunk
\* starts with a non-empty overlap window.
C7_Witness ==
    /\ chunk_pc = "done"
    /\ Len(sentences) >= 3
    /\ Len(chunks) >= 2
    /\ LeadLen(2) >= 1
    /\ ConcatNonOverlap(Len(chunks)) = sentences

\* C8: every chunk but the first starts with a contiguous suffix of its
\* predecessor, in the original order, whose token count is at most
\* chunk_overlap, and that suffix is the longest one: it is the whole
\* predecessor, or the sentence before it would push the sum over the budget.
C8_OverlapIsLongestSuffix ==
    chunk_pc = "done" =>
        \A k \in 2..Len(chunks) :
            \E w \in 0..Len(chunks[k - 1]) :
                /\ w < Len(chunks[k])
                /\ SubSeq(chunks[k], 1, w) = Suffix(chunks[k - 1], w)
                /\ SumTokens(SubSeq(chunks[k], 1, w)) <= chunk_overlap
                /\ \/ w = Len(chunks[k - 1])
                   \/ SumTokens(Suffix(chunks[k - 1], w + 1)) > chunk_overlap
                /\ ConcatNonOverlap(k - 1) \o SubSeq(chunks[k], w + 1, Len(chunks[k]))
                       = SubSeq(sentences, 1, Len(ConcatNonOverlap(k)))

\* C8 witness: a finished run in which a window of two sentences stops inside
\* its predecessor with the budget used up exactly.
C8_Witness ==
    /\ chunk_pc = "done"
    /\ \E k \in 2..Len(chunks) :
          /\ LeadLen(k) >= 2
          /\ LeadLen(k) < Len(chunks[k - 1])
          /\ SubSeq(chunks[k], 1, LeadLen(k)) = Suffix(chunks[k - 1], LeadLen(k))
          /\ SumTokens(SubSeq(chunks[k], 1, LeadLen(k))) = chunk_overlap

\* C9: a sentence whose own token count exceeds max_chunk_size is alone in the
\* chunk that contains it: no overlap window before it and no sentence after.
C9_OversizeSentenceAlone ==
    chunk_pc = "done" =>
        \A k \in 1..Len(chunks) :
            \A i \in 1..Len(chunks[k]) :
                TokenCount(chunks[k][i]) > max_chunk_size => Len(chunks[k]) = 1


-----------------------------------------------------------------------------
(* Properties of the service                                               *)

\* the search arguments the properties range over: query texts, limits, and
\* every document filter of at most two ids, own, foreign or unknown
ClaimQueries == {<<"s500">>, <<"s900", "a100">>}
ClaimLimits == {1, top_k}
KnownDocIds ==
    {p.metadata.document_id : p \in collection}
        \cup {w.document_id : w \in written} \cup {UnknownDocumentId}
ClaimFilters ==
    {NoFilter, EmptyFilter}
        \cup {[present |-> TRUE, ids |-> <<d>>] : d \in KnownDocIds}
        \cup {[present |-> TRUE, ids |-> <<d, e>>] : d \in KnownDocIds, e \in KnownDocIds}

\* the document ids among the hits of one search
HitDocIds(hits) == {hits[i].metadata.document_id : i \in 1..Len(hits)}

\* C1: whatever was ingested and deleted so far, a search as owner u, for any
\* query text, any limit and any document filter (also one naming another
\* owner's documents), returns only passages stored under user_id u.
C1_SearchReturnsOwnPassagesOnly ==
    \A u \in Owners, q \in ClaimQueries, n \in ClaimLimits, f \in ClaimFilters :
        LET hits == SearchSimilar(collection, q, u, n, f) IN
        \A i \in 1..Len(hits) : hits[i].metadata.user_id = u

\* C1 witness: A has searched with a filter naming a document of B whose
\* passages are in the collection, next to passages of A, and got nothing
C1_Witness ==
    /\ last.op = "query"
    /\ last.request.user_id = "A"
    /\ last.request.document_ids.present
    /\ last.request.document_ids.ids # <<>>
    /\ \E p \in collection :
          /\ p.metadata.user_id = "B"
          /\ p.metadata.document_id = last.request.document_ids.ids[1]
    /\ \E p \in collection : p.metadata.user_id = "A"
    /\ last.resp = HttpOk(NoInformationResult)

\* document_id was indexed for another user than user_id
ForeignDocument(document_id, user_id) ==
    \E w \in written : w.document_id = document_id /\ w.user_id # user_id

\* what a delete of a document id that was never indexed ends with
UnknownIdDeleteResponses ==
    {DeleteResponse(UnknownDocumentId, FALSE), InternalError("Failed to delete document")}

\* C2: a delete by a user who does not own the document finds no passage to
\* delete, leaves the collection as it was, and ends with the response a
\* delete of a never-indexed id ends with (the same 404 and detail).
C2_ForeignDeleteLooksUnknown ==
    /\ \A u \in Owners, d \in KnownDocIds :
          ForeignDocument(d, u) => StoreGetIds(collection, d, u) = {}
    /\ (last.op = "delete"
            /\ ForeignDocument(last.request.document_id, last.request.user_id))
          => /\ collection = last.before
             /\ last.request.ids = {}
             /\ last.resp \in UnknownIdDeleteResponses
             /\ last.resp.status # 200

\* C2 witness: a delete of a foreign document whose passages are in the
\* collection has ended with the 404
C2_Witness ==
    /\ last.op = "delete"
    /\ ForeignDocument(last.request.document_id, last.request.user_id)
    /\ last.resp.status = 404
    /\ \E p \in collection : p.metadata.document_id = last.request.document_id

\* C3: once remove has returned True for a document, no search scoped to
\* that owner returns a hit of it in any later state, and the delete step
\* leaves the passages of every other document exactly as they were.
C3_RemovedDocumentStaysGone ==
    /\ \A rm \in removed :
          \A q \in ClaimQueries, n \in ClaimLimits, f \in ClaimFilters :
              rm[1] \notin HitDocIds(SearchSimilar(collection, q, rm[2], n, f))
    /\ (last.op = "delete" /\ last.resp.status = 200)
          => {p \in collection : p.metadata.document_id # last.request.document_id}
                = {p \in last.before : p.metadata.document_id # last.request.document_id}

\* C3 witness: a document of two passages was removed, and its owner has
\* since searched and got hits of another document
C3_Witness ==
    /\ \E rm \in removed :
          /\ \E w \in written : w.document_id = rm[1] /\ Cardinality(w.ids) >= 2
          /\ last.op = "query"
          /\ last.request.user_id = rm[2]
          /\ last.resp.status = 200
          /\ last.request.relevant_chunks # <<>>
          /\ rm[1] \notin HitDocIds(last.request.relevant_chunks)
          /\ rm[1] \notin HitDocIds(SearchSimilar(collection, last.request.query, rm[2],
                                                  top_k, last.request.document_ids))

\* the defects an upload is rejected for
FileDefect(file) ==
    \/ file.filename = <<>>
    \/ file.size > 50 * 1024 * 1024
    \/ Lower(file.filename[Len(file.filename)]) \notin {"pdf", "docx", "doc", "txt"}
    \/ file.content \in {"corrupt", "short", "noise"}

\* C4: an ingest that ends with an error leaves the collection as it was, no
\* upload with a defect is ever written, and every stored passage belongs to
\* an ingest that succeeded.
C4_FailedIngestLeavesIndexUnchanged ==
    /\ (last.op = "ingest" /\ last.resp.status # 200) => collection = last.before
    /\ (last.op = "ingest" /\ FileDefect(last.request.file))
          => /\ last.resp.status # 200
             /\ collection = last.before
    /\ \A w \in written : ~FileDefect(w.file)
    /\ \A p \in collection : \E w \in written : p.id \in w.ids

\* C4 witness: an oversize upload was rejected while the collection held
\* passages
C4_Witness ==
    /\ last.op = "ingest"
    /\ last.request.file.size > max_size
    /\ last.resp.status = 413
    /\ collection # {}
    /\ collection = last.before

\* C5: in every state, also while ingests and deletes are in flight, the
\* passages of a document that a search can see are all of the passages its
\* ingest wrote or none of them.
C5_SearchSeesAllOrNothing ==
    /\ \A d \in KnownDocIds :
          LET seen == {p \in collection : p.metadata.document_id = d} IN
          \A p \in seen :
              {x.metadata.chunk_index : x \in seen} = 0..(p.metadata.total_chunks - 1)
    /\ \A w \in written :
          \A q \in ClaimQueries :
              LET hits == SearchSimilar(collection, q, w.user_id, top_k,
                                        [present |-> TRUE, ids |-> <<w.document_id>>])
              IN  Len(hits) \in {0, Cardinality(w.ids)}

\* C5 witness: a delete that has read the ids of a two-passage document is in
\* flight together with a query that has seen both passages of that document
C5_Witness ==
    \E r \in BagToSet(reqs), s \in BagToSet(reqs) :
        /\ r.op = "delete"
        /\ s.op = "query"
        /\ Cardinality(r.ids) >= 2
        /\ Len(s.relevant_chunks) >= 2
        /\ HitDocIds(s.relevant_chunks) = {r.document_id}

\* C10: when a provider is configured and its call fails, the query ends
\* with an error and not with a normal result, and no second provider is
\* called within the request.
C10_ProviderFailurePropagates ==
    (last.op = "query" /\ last.request.provider_failed)
        => /\ last.resp.status # 200
           /\ Len(last.request.called) = 1


\* what the search of the query request in `last` returns on the collection
\* its last step began with
LastSearch ==
    SearchSimilar(last.before, last.request.query, last.request.user_id, top_k,
                  last.request.document_ids)

\* C11: a non-empty query whose search returns no hit ends with a result of
\* context_used 0, no sources and some suggestions, without generate_response
\* having been called; and a query whose search returns hits is the only one
\* that reaches generate_response.
C11_ZeroHitsGivesSuggestions ==
    last.op = "query" =>
        /\ (last.request.searched /\ ~last.request.generated /\ last.resp.status # 500)
              => /\ LastSearch = <<>>
                 /\ last.resp.status = 200
                 /\ last.resp.body.context_used = 0
                 /\ last.resp.body.sources = <<>>
                 /\ Len(last.resp.body.suggestions) > 0
                 /\ last.request.called = <<>>
        /\ last.request.generated => last.request.relevant_chunks # <<>>

\* C11 witness: B, who has no passage in a non-empty collection, has asked
\* a question and got the suggestions
C11_Witness ==
    /\ last.op = "query"
    /\ last.request.user_id = "B"
    /\ last.request.searched
    /\ ~last.request.generated
    /\ collection # {}
    /\ \A p \in collection : p.metadata.user_id # "B"
    /\ last.resp.status = 200
    /\ Len(last.resp.body.suggestions) > 0


\* the dict generate_response returned in the request in `last`
LastAnswer == IF last.op = "query" THEN last.resp.body ELSE last.resp

\* generate_response was called in the request in `last`
LastGenerated ==
    \/ last.op = "generate"
    \/ last.op = "query" /\ last.request.generated

\* the first initialised provider, Together before OpenAI
FirstInitialised ==
    IF together_client THEN <<"together">>
    ELSE IF openai_client THEN <<"openai">>
    ELSE <<>>

LastHits ==
    IF last.op = "query" THEN last.request.relevant_chunks ELSE last.request.context_chunks

\* C13: with no provider initialised generate_response does not fail, for
\* any hit list and any history: for no hits the answer says that no relevant
\* documents were found; for n >= 1 hits it is built from the filename and
\* the text of the first min(2, n) hits, in order, and carries the notice
\* about the configuration; the model is "fallback", and the answer depends
\* on the hit list alone.
C13_FallbackAnswer ==
    (LastGenerated /\ ~together_client /\ ~openai_client) =>
        LET n == Len(LastHits)
            shown == IF n < 2 THEN n ELSE 2
        IN  /\ "error" \notin DOMAIN LastAnswer
            /\ LastAnswer.model = "fallback"
            /\ LastAnswer.context_used = n
            /\ n = 0 => LastAnswer.response.kind = "no_relevant_documents"
            /\ n >= 1 =>
                  /\ LastAnswer.response.kind = "fallback"
                  /\ LastAnswer.response.notice
                  /\ LastAnswer.response.count = n
                  /\ Len(LastAnswer.response.preview) = shown
                  /\ \A i \in 1..shown :
                        LastAnswer.response.preview[i]
                            = <<LastHits[i].metadata.filename, TextPrefix(LastHits[i].text)>>
            /\ last.op = "generate" =>
                  \A ok \in BOOLEAN :
                      last.resp = GenerateResponse(LastHits, FALSE, FALSE, ok)

\* C13 witness: without providers, generate_response was called on three or
\* more hits and a history of four messages, and previews two hits
C13_Witness ==
    /\ ~together_client
    /\ ~openai_client
    /\ last.op = "generate"
    /\ Len(last.request.context_chunks) >= 3
    /\ Len(last.request.chat_history) = 4
    /\ Len(last.resp.response.preview) = 2
    /\ last.resp.model = "fallback"


\* the position of the first hit of document d in a hit list
FirstHit(hits, d) ==
    CHOOSE i \in 1..Len(hits) :
        /\ hits[i].metadata.document_id = d
        /\ \A j \in 1..(i - 1) : hits[j].metadata.document_id # d

\* the positions of the hits of document d
HitsOf(hits, d) == {i \in 1..Len(hits) : hits[i].metadata.document_id = d}

\* the hits are ordered by descending similarity
Descending(hits) == \A i \in 1..Len(hits), j \in 1..Len(hits) :
                        i < j => hits[i].score >= hits[j].score

RECURSIVE SumChunkCounts(_)
SumChunkCounts(sources) ==
    IF sources = <<>> THEN 0 ELSE Head(sources).chunk_count + SumChunkCounts(Tail(sources))

C15_VerbatimQueryFindsDocument ==
    (last.op = "query" /\ last.request.searched /\ last.resp.status = 200
        /\ last.request.document_ids = NoFilter) =>
        \A w \in written :
            \A p \in last.before :
                (p.id \in w.ids /\ w.user_id = last.request.user_id
                    /\ p.document = last.request.query
                    /\ last.request.relevant_chunks = LastSearch)
                    => w.document_id \in HitDocIds(last.request.relevant_chunks)


\* the ids of the passages of the documents that were written and not removed
IdsWrittenAndKept ==
    UNION {w.ids : w \in {x \in written : <<x.document_id, x.user_id>> \notin removed}}

\* C16: a query, whether it is answered, finds nothing, is rejected or fails
\* in generation, leaves the collection as it was; with no add and no delete
\* in between, the same search on the collection returns the ranked list the
\* query got (the same passages, order and scores).
C16_QueryLeavesIndexUnchanged ==
    /\ {p.id : p \in collection} = IdsWrittenAndKept
    /\ last.op = "query" =>
          /\ collection = last.before
          /\ (last.request.searched /\ last.resp.status # 500) =>
                last.request.relevant_chunks
                    = SearchSimilar(collection, last.request.query, last.request.user_id,
                                    top_k, last.request.document_ids)

\* C16 witness: a query over two or more hits has failed in generation, and
\* the search repeated on the collection gives the hits it had
C16_Witness ==
    /\ last.op = "query"
    /\ last.request.generated
    /\ last.request.provider_failed
    /\ Len(last.request.relevant_chunks) >= 2
    /\ collection = last.before
    /\ last.request.relevant_chunks
          = SearchSimilar(collection, last.request.query, last.request.user_id,
                          top_k, last.request.document_ids)


\* w was written and its document was not removed
Kept(w) == <<w.document_id, w.user_id>> \notin removed

\* C17: a successful ingest stores its passages under a document id no
\* passage stored before carries and no earlier ingest used, under passage
\* ids no stored passage has, and leaves every passage stored before as it
\* was; and of two documents a user ingested from the same file, deleting
\* one leaves every passage of the other retrievable.
C17_IngestAddsAnIndependentDocument ==
    /\ \A w \in written, x \in written :
          w # x => /\ w.document_id # x.document_id
                   /\ w.ids \cap x.ids = {}
    /\ (last.op = "ingest" /\ last.resp.status = 200) =>
          LET added == collection \ last.before IN
          /\ last.before \subseteq collection
          /\ Cardinality(added) = Len(last.request.chunks_with_metadata)
          /\ \A p \in added : p.metadata.document_id = last.request.document_id
          /\ \A p \in last.before :
                /\ p.metadata.document_id # last.request.document_id
                /\ \A q \in added : q.id # p.id
          /\ \A rm \in removed : rm[1] # last.request.document_id
    /\ \A w \in written, x \in written :
          (w # x /\ w.file = x.file /\ w.user_id = x.user_id /\ ~Kept(w) /\ Kept(x)) =>
              /\ x.ids \subseteq {p.id : p \in collection}
              /\ Len(SearchSimilar(collection, <<"s500">>, x.user_id, top_k,
                                   [present |-> TRUE, ids |-> <<x.document_id>>]))
                    = Cardinality(x.ids)

\* C17 witness: a user has ingested the same two-passage file twice and the
\* delete of the first document has just succeeded, the second still whole
C17_Witness ==
    /\ last.op = "delete"
    /\ last.resp.status = 200
    /\ \E w \in written, x \in written :
          /\ w # x
          /\ w.file = x.file
          /\ w.user_id = x.user_id
          /\ w.document_id = last.request.document_id
          /\ ~Kept(w)
          /\ Kept(x)
          /\ Cardinality(x.ids) = 2
          /\ x.ids \subseteq {p.id : p \in collection}


\* no ingest has written document_id for user_id
NeverIndexed(document_id, user_id) ==
    \A w \in written : ~(w.document_id = document_id /\ w.user_id = user_id)

\* C18: once a document was deleted, and for a pair that was never indexed,
\* the store's get finds no passage, so a delete that begins then returns
\* False and the service raises the 404 (the 500 of the except clause when
\* the store itself raises), never a success; the collection is not touched.
C18_RepeatedDeleteIsNotFound ==
    /\ \A u \in Owners, d \in KnownDocIds :
          (NeverIndexed(d, u) \/ <<d, u>> \in removed) =>
              /\ StoreGetIds(collection, d, u) = {}
              /\ DeleteResponse(d, StoreGetIds(collection, d, u) # {}).status = 404
    /\ (last.op = "delete" /\ last.request.ids = {}) =>
          /\ last.resp.status \in {404, 500}
          /\ last.resp.status = 404 =>
                last.resp.detail
                    = "Document not found or you don't have permission to delete it"
          /\ last.resp.status = 500 => last.resp = InternalError("Failed to delete document")
          /\ collection = last.before
    /\ (last.op = "delete" /\ last.resp.status = 200) =>
          /\ last.request.ids # {}
          /\ ~NeverIndexed(last.request.document_id, last.request.user_id)

\* C18 witness: a second delete of a document that was deleted before has
\* ended with the 404
C18_Witness ==
    /\ last.op = "delete"
    /\ <<last.request.document_id, last.request.user_id>> \in removed
    /\ last.request.ids = {}
    /\ last.resp.status = 404
    /\ collection # {}


\* the document ids that have a passage of user_id in coll
IndexedDocIds(coll, user_id) ==
    {p.metadata.document_id : p \in {q \in coll : q.metadata.user_id = user_id}}

\* C19: the stats of a user report the number of distinct document ids that
\* are indexed for the user, rag_enabled exactly when there is one, and the
\* model name generate_response reports.
C19_StatsReportIndexedDocuments ==
    last.op = "stats" =>
        LET indexed == IndexedDocIds(last.before, last.request.user_id) IN
        /\ last.resp.status = 200
        /\ last.resp.body.total_documents = Cardinality(indexed)
        /\ last.resp.body.rag_enabled <=> (indexed # {})
        /\ last.resp.body.llm_status
              = IF FirstInitialised = <<>> THEN "fallback"
                ELSE ProviderModel(FirstInitialised[1])


\* the text is empty or whitespace only
Blank(text) == \A i \in 1..Len(text) : text[i] = " "

\* C20: a query whose text is empty or whitespace only ends with status 400,
\* and neither search_similar nor generate_response nor a provider was called
\* for it; the collection is as it was.
C20_BlankQueryIsRejected ==
    (last.op = "query" /\ Blank(last.request.query)) =>
        /\ last.resp = HttpError(400, "Query cannot be empty")
        /\ ~last.request.searched
        /\ ~last.request.generated
        /\ last.request.called = <<>>
        /\ last.request.relevant_chunks = <<>>
        /\ collection = last.before

\* C20 witness: a whitespace-only query was rejected while the user had
\* passages in the collection
C20_Witness ==
    /\ last.op = "query"
    /\ last.request.query = <<" ">>
    /\ last.resp.status = 400
    /\ \E p \in collection : p.metadata.user_id = last.request.user_id


\* the text the extractor returned for an upload, after _clean_text
CleanedLen(file) == TextLen(CleanText(ExtractText(file).text))

\* the error an ingest ends with when process_document finds the text too short
TooShortError == ProcessingError("Document appears to be empty or too short")

\* C21: the minimum-length check looks at the text after whitespace
\* normalization and trimming: an ingest whose upload passes validation and
\* extraction ends with the empty-document error exactly when the cleaned
\* text has fewer than min_text_len characters, so no document whose cleaned
\* text is that short is ever chunked and written to the collection.
C21_MinimumLengthAfterCleaning ==
    /\ \A w \in written : CleanedLen(w.file) >= min_text_len
    /\ (last.op = "ingest" /\ ValidateUpload(last.request.file).status = 200
            /\ ~ExtractText(last.request.file).raised)
          => ((last.resp = TooShortError)
                 <=> (CleanedLen(last.request.file) < min_text_len))


\* the fragments of at least 10 characters once trimmed, trimmed, in order
RECURSIVE FragmentsOfTenOrMore(_)
FragmentsOfTenOrMore(frags) ==
    IF frags = <<>> THEN <<>>
    ELSE (IF TextLen(StripText(Head(frags))) >= 10 THEN <<StripText(Head(frags))>> ELSE <<>>)
             \o FragmentsOfTenOrMore(Tail(frags))

\* C22: the sentence splitter drops exactly the fragments whose trimmed
\* length is below 10 characters and keeps every other fragment, in order: a
\* fragment of 9 characters is dropped, one of exactly 10 is kept, one of 11
\* is kept.
C22_FragmentsBelowTenAreDropped ==
    split_pc = "done" =>
        /\ cleaned_sentences = FragmentsOfTenOrMore(fragments)
        /\ cleaned_sentences = SplitIntoSentences(fragments)


\* the context block built in the request in `last`
LastContext ==
    IF last.op = "generate" THEN last.request.user_prompt.context
    ELSE BuildContext(LastHits)

\* C23: for a hit list of length n the context block holds the first
\* min(5, n) hits, in the order given, each with its filename, score and
\* text, and the context_used that generate_response returns is the number
\* of hits in that block.
C23_ContextUsedCountsRenderedHits ==
    LastGenerated =>
        LET n == Len(LastHits)
            rendered == IF n < 5 THEN n ELSE 5
        IN  /\ n >= 1 =>
                  /\ Len(LastContext) = rendered
                  /\ \A i \in 1..rendered :
                        LastContext[i] = [filename |-> LastHits[i].metadata.filename,
                                          text |-> LastHits[i].text,
                                          score |-> LastHits[i].score]
            /\ LastAnswer.context_used = rendered


\* process_document raises for the upload: the extractor cannot read it, or
\* its text is empty or too short
RejectedByProcessor(file) ==
    /\ ValidateUpload(file).status = 200
    /\ ProcessDocument(file, "A", UnknownDocumentId).raised

\* the error an ingest ends with when the collection cannot be written
IndexUnavailableError == ProcessingError("collection.add failed")

\* C24: a failure raised by a component leaves the orchestrator as an
\* HTTPException, and the kinds stay apart: an upload the extractor or the
\* length check rejects ends with a client-input error (a 4xx status), which
\* its status tells from the service error of an unavailable index.
C24_ErrorKindsKeptApart ==
    /\ last.op \in {"ingest", "query", "delete"} =>
          last.resp.status \in {200, 400, 404, 413, 500}
    /\ (last.op = "ingest" /\ RejectedByProcessor(last.request.file)) =>
          /\ last.resp.status \in 400..499
          /\ last.resp.status # IndexUnavailableError.status


\* the number of documents user_id has ingested, and has deleted, so far
Ingested(user_id) == Cardinality({w \in written : w.user_id = user_id})
Deleted(user_id) == Cardinality({rm \in removed : rm[2] = user_id})

\* C25: the document count of an owner is the number of the owner's
\* successful ingests minus the number of the owner's successful deletes and
\* never negative: the indexed documents are the ingested ones less the
\* deleted ones, a successful ingest adds one and a successful delete takes
\* one from the owner's count and leaves the other owners' counts alone, and
\* the count a query reports is that number.
C25_CountIsIngestsMinusDeletes ==
    /\ \A u \in Owners :
          /\ UserDocumentCount(collection, u) = Ingested(u) - Deleted(u)
          /\ UserDocumentCount(collection, u) >= 0
    /\ (last.op = "ingest" /\ last.resp.status = 200) =>
          \A u \in Owners :
              UserDocumentCount(collection, u)
                  = UserDocumentCount(last.before, u)
                        + (IF u = last.request.user_id THEN 1 ELSE 0)
    /\ (last.op = "delete" /\ last.resp.status = 200) =>
          \A u \in Owners :
              UserDocumentCount(collection, u)
                  = UserDocumentCount(last.before, u)
                        - (IF u = last.request.user_id THEN 1 ELSE 0)
    /\ (last.op = "query" /\ last.request.generated) =>
          last.resp.body.total_documents_searched
              = Ingested(last.request.user_id) - Deleted(last.request.user_id)


\* C26: every dict query_documents returns (an answer, the result for no
\* hits, the result of a failed generation) has all the fields the response
\* model of the query endpoint requires, so QueryResponse(**result) is built
\* without a validation error.
C26_QueryResultFitsResponseModel ==
    (last.op = "query" /\ last.resp.status = 200) =>
        /\ QueryResponseFields \subseteq DOMAIN last.resp.body
        /\ ~QueryResponse(last.resp.body).raised


\* C27: every endpoint (upload, query, delete, stats) calls the orchestrator
\* with the id of the authenticated user: the lookup of the id in the dict
\* get_current_user returned succeeds and gives that user's id, so no
\* endpoint ends before the orchestrator is called.
C27_EndpointsPassTheAuthenticatedUser ==
    last.op = "endpoint" =>
        /\ ~Lookup(last.request.current_user, "id").raised
        /\ Lookup(last.request.current_user, "id").value = last.request.user
        /\ last.request.core_called


\* the document ids a filter names
FilterIds(document_ids) == {document_ids.ids[i] : i \in 1..Len(document_ids.ids)}

\* C28: a search with a non-empty list of document ids returns only hits of
\* the caller whose document id is in the list; a search with an empty list
\* returns what the search without filter returns, which may be passages of
\* every document of the owner.
C28_FilterRestrictsOrIsIgnored ==
    /\ \A u \in Owners, q \in ClaimQueries, n \in ClaimLimits :
          /\ \A f \in ClaimFilters :
                (f.present /\ f.ids # <<>>) =>
                    LET hits == SearchSimilar(collection, q, u, n, f) IN
                    \A i \in 1..Len(hits) :
                        /\ hits[i].metadata.document_id \in FilterIds(f)
                        /\ hits[i].metadata.user_id = u
          /\ SearchSimilar(collection, q, u, n, EmptyFilter)
                = SearchSimilar(collection, q, u, n, NoFilter)
    /\ (last.op = "query" /\ last.request.searched /\ last.resp.status # 500) =>
          /\ last.request.document_ids = EmptyFilter =>
                last.request.relevant_chunks
                    = SearchSimilar(last.before, last.request.query,
                                    last.request.user_id, top_k, NoFilter)
          /\ (last.request.document_ids.present /\ last.request.document_ids.ids # <<>>) =>
                HitDocIds(last.request.relevant_chunks)
                    \subseteq FilterIds(last.request.document_ids)

\* C28 witness: a query with an empty list of document ids was answered from
\* hits of two or more documents of its owner
C28_Witness ==
    /\ last.op = "query"
    /\ last.request.document_ids = EmptyFilter
    /\ last.resp.status = 200
    /\ last.request.generated
    /\ Cardinality(HitDocIds(last.request.relevant_chunks)) >= 2
    /\ \A i \in 1..Len(last.request.relevant_chunks) :
          last.request.relevant_chunks[i].metadata.user_id = last.request.user_id


\* the number of chunks the run has closed or is packing
ChunksBegun == Len(chunks) + (IF chunk_pc = "loop" /\ current_chunk # <<>> THEN 1 ELSE 0)

\* the passages process_document makes of the chunks of a finished run
ChunkPassages == ChunksWithMetadata(chunks, <<"one", "txt">>, UnknownDocumentId)

\* what C29 says of every state of a run of the chunker
ChunkCountBounded ==
    /\ pos <= Len(sentences)
    /\ ChunksBegun <= pos
    /\ chunk_pc = "done" =>
          /\ pos = Len(sentences)
          /\ sentences # <<>> => Len(chunks) >= 1
          /\ Len(chunks) <= Len(sentences)
          /\ \A k \in 1..Len(chunks) : NonOverlap(k) # <<>>
          /\ Len(ConcatNonOverlap(Len(chunks))) = Len(sentences)
          /\ Len(ChunkPassages) = Len(chunks)
          /\ \A i \in 1..Len(chunks) :
                /\ ChunkPassages[i].text = chunks[i]
                /\ ChunkPassages[i].metadata.chunk_index = i - 1
                /\ ChunkPassages[i].metadata.total_chunks = Len(chunks)

\* C29: the chunker loop ends for every sentence list; every chunk ends with
\* a sentence that is in no earlier chunk's non-overlap part, so there is at
\* least one chunk for a non-empty list and never more chunks than sentences;
\* the passages carry the indices 0..n-1 in the order of emission and
\* total_chunks = n.
C29_ChunkerTerminatesWithBoundedChunks ==
    /\ <>(chunk_pc = "done")
    /\ []ChunkCountBounded

\* C29 witness: a finished run over three or more sentences that made as many
\* chunks as there were sentences, the later ones behind an overlap window
C29_Witness ==
    /\ chunk_pc = "done"
    /\ Len(sentences) >= 3
    /\ Len(chunks) = Len(sentences)
    /\ \E k \in 2..Len(chunks) : LeadLen(k) >= 1


\* the passages a delete that has ended took out of the collection
RemovedByLast == {p \in last.before : p.id \in last.request.ids}

\* C30: of the deletes of one document by its owner, however their lookup and
\* delete steps interleave, only one reports success, the one that took the
\* passages out, and the others report not-found: a delete that ends with
\* "deleted" has removed passages of the document that were still stored and
\* whose removal no delete had reported before, and it removed nothing of
\* any other document.
C30_OverlappingDeletesOneSucceeds ==
    (last.op = "delete" /\ last.resp.status = 200)
        => /\ RemovedByLast # {}
           /\ \A p \in RemovedByLast :
                 /\ p.metadata.document_id = last.request.document_id
                 /\ p.metadata.user_id = last.request.user_id
           /\ collection = last.before \ RemovedByLast

====
